---- MODULE Spec2Model ----
(***************************************************************************)
(* A model of orca/utils/train_callbacks.py: the training-loop callbacks   *)
(* (SaveCallback, ValidationCallback, VisualizationCallback), the task     *)
(* ablation helpers (remove_text, remove_images,                           *)
(* get_policy_sampled_actions) and create_validation_dataset.              *)
(*                                                                         *)
(* Python values are modelled as follows.  A dict is a function whose      *)
(* DOMAIN is its key set (<<>> is the empty dict).  An Optional value is a *)
(* sequence of length 0 (None, or an attribute that was never assigned) or *)
(* 1 (the value).  An array with a leading batch dimension is a sequence   *)
(* of its rows.  A raised exception is recorded by its class name.         *)
(***************************************************************************)
EXTENDS Integers, Sequences, FiniteSets, TLC

VARIABLES
    \* create_validation_dataset: the caller's arguments and the call made
    cvd_pc, cvd_dataset_kwargs, cvd_traj_transform_kwargs,
    cvd_frame_transform_kwargs, cvd_train, cvd_made,
    \* SaveCallback: fields, the file system, the handle open() returned
    save_pc, save_dir, process_index, state_checkpointer, params_checkpointer,
    fs_dirs, save_hist, opened,
    \* remove_text, remove_images, get_policy_sampled_actions and the task
    \* dictionaries of eval_step: the caller's tasks, the calls made, their
    \* results
    t_pc, t_tasks, t_zero_text, t_ops, t_policy_mode, t_modes,
    t_self_zero_text, t_res, t_eval,
    \* ValidationCallback: fields, the position of each validation iterator,
    \* the calls made, what the last eval_step and the last __call__ returned
    val_pc, val_text_processor, val_zero_text, val_dataset_kwargs_list,
    val_iterators, num_val_batches, modes_to_evaluate, val_calls,
    val_last_eval, val_ret,
    \* VisualizationCallback: fields, the calls made, the visualizer methods
    \* the last __call__ invoked and what it returned
    viz_pc, viz_dataset_kwargs_list, viz_modes_to_evaluate, trajs_for_metrics,
    trajs_for_viz, visualizers, viz_calls, viz_invoked, viz_ret

varsCvd == <<cvd_pc, cvd_dataset_kwargs, cvd_traj_transform_kwargs,
             cvd_frame_transform_kwargs, cvd_train, cvd_made>>
varsSave == <<save_pc, save_dir, process_index, state_checkpointer,
              params_checkpointer, fs_dirs, save_hist, opened>>
varsTasks == <<t_pc, t_tasks, t_zero_text, t_ops, t_policy_mode, t_modes,
               t_self_zero_text, t_res, t_eval>>
varsVal == <<val_pc, val_text_processor, val_zero_text, val_dataset_kwargs_list,
             val_iterators, num_val_batches, modes_to_evaluate, val_calls,
             val_last_eval, val_ret>>
varsViz == <<viz_pc, viz_dataset_kwargs_list, viz_modes_to_evaluate,
             trajs_for_metrics, trajs_for_viz, visualizers, viz_calls,
             viz_invoked, viz_ret>>
vars == <<varsCvd, varsSave, varsTasks, varsVal, varsViz>>

---------------------------------------------------------------------------
(* Generic helpers *)

None == <<>>
Some(v) == <<v>>

\* {**a, **b} and flax.core.copy(a, b): b's entries over a's
DictUpdate(a, b) ==
    [k \in DOMAIN a \cup DOMAIN b |-> IF k \in DOMAIN b THEN b[k] ELSE a[k]]

\* every dict with keys drawn from Keys and values from Vals
DictsOver(Keys, Vals) == UNION {[D -> Vals] : D \in SUBSET Keys}

\* the keys of a dict filled from a sequence, in insertion order
RECURSIVE DictOrder(_)
DictOrder(keys) ==
    IF keys = <<>> THEN <<>>
    ELSE LET rest == DictOrder(SubSeq(keys, 1, Len(keys) - 1))
             key == keys[Len(keys)]
         IN  IF \E j \in DOMAIN rest : rest[j] = key THEN rest
             ELSE Append(rest, key)

SetMax(S) == CHOOSE m \in S : \A x \in S : x <= m

\* tf.io.gfile.join
PathJoin(a, b) == a \o "/" \o b

---------------------------------------------------------------------------
(* create_validation_dataset *)

\* Keyword values are written as their Python literals, so that numbers and
\* booleans can share a dict.
ParallelReads == "4"
ParallelCalls == "4"
TrajParallelCalls == "4"
FrameTransformThreads == "16"

\* the values a caller's configuration may carry
KwargValues == {"8", "False", "True"}
DatasetKwargKeys == {"name", "shuffle", "num_parallel_reads", "num_parallel_calls"}
TrajKwargKeys == {"num_parallel_calls", "window_size"}
FrameKwargKeys == {"resize_size", "num_parallel_calls"}

InitCvd ==
    /\ cvd_pc = "args"
    /\ cvd_dataset_kwargs \in DictsOver(DatasetKwargKeys, KwargValues)
    /\ cvd_traj_transform_kwargs \in DictsOver(TrajKwargKeys, {"8"})
    /\ cvd_frame_transform_kwargs \in DictsOver(FrameKwargKeys, {"8"})
    /\ cvd_train \in BOOLEAN
    /\ cvd_made = None

\* the component is not part of the run
IdleCvd ==
    /\ cvd_pc = "off"
    /\ cvd_dataset_kwargs = <<>>
    /\ cvd_traj_transform_kwargs = <<>>
    /\ cvd_frame_transform_kwargs = <<>>
    /\ cvd_train = FALSE
    /\ cvd_made = None

\* variant: the caller's dictionaries spread after the overrides
MakeSingleDatasetArgsReversed(dataset_kwargs, traj_transform_kwargs, frame_transform_kwargs, train) ==
    [dataset_kwargs |->
        DictUpdate([k \in {"num_parallel_reads", "num_parallel_calls", "shuffle"} |->
                       CASE k = "num_parallel_reads" -> ParallelReads
                         [] k = "num_parallel_calls" -> ParallelCalls
                         [] k = "shuffle" -> "False"],
                   dataset_kwargs),
     traj_transform_kwargs |->
        DictUpdate([k \in {"num_parallel_calls"} |-> TrajParallelCalls],
                   traj_transform_kwargs),
     frame_transform_kwargs |-> frame_transform_kwargs,
     train |-> train,
     frame_transform_threads |-> FrameTransformThreads]

\* the keyword arguments make_single_dataset is called with
MakeSingleDatasetArgs(dataset_kwargs, traj_transform_kwargs, frame_transform_kwargs, train) ==
    [dataset_kwargs |->
        DictUpdate(dataset_kwargs,
                   [k \in {"num_parallel_reads", "num_parallel_calls", "shuffle"} |->
                       CASE k = "num_parallel_reads" -> ParallelReads
                         [] k = "num_parallel_calls" -> ParallelCalls
                         [] k = "shuffle" -> "False"]),
     traj_transform_kwargs |->
        DictUpdate(traj_transform_kwargs,
                   [k \in {"num_parallel_calls"} |-> TrajParallelCalls]),
     frame_transform_kwargs |-> frame_transform_kwargs,
     train |-> train,
     frame_transform_threads |-> FrameTransformThreads]

create_validation_dataset ==
    /\ cvd_pc = "args"
    /\ cvd_pc' = "made"
    /\ cvd_made' = Some(MakeSingleDatasetArgs(cvd_dataset_kwargs,
                                              cvd_traj_transform_kwargs,
                                              cvd_frame_transform_kwargs,
                                              cvd_train))
    /\ UNCHANGED <<cvd_dataset_kwargs, cvd_traj_transform_kwargs,
                   cvd_frame_transform_kwargs, cvd_train>>

---------------------------------------------------------------------------
(* SaveCallback *)

MaxStep == 4
MaxProcessIndex == 1

SaveDirs == {None, Some("ckpt")}
FileNames == {"config.json", "debug.txt"}
FileModes == {"w", "r"}
DevNull == "/dev/null"
TrainStates == [params : {"p1", "p2"}, opt_state : {"o1", "o2"}]

\* orbax CheckpointManager(directory, options): max_to_keep is None (keep
\* every checkpoint) or a count
CheckpointManager(directory, max_to_keep) ==
    [directory |-> directory, max_to_keep |-> max_to_keep, ckpts |-> <<>>]

\* the steps a manager retains after a save: the max_to_keep most recent
Retained(steps, max_to_keep) ==
    IF max_to_keep = None THEN steps
    ELSE {s \in steps : Cardinality({t \in steps : t > s}) < max_to_keep[1]}

\* variant: a save that ignores max_to_keep
CheckpointManagerSaveKeepAll(mgr, step, item) ==
    [mgr EXCEPT !.ckpts = DictUpdate(mgr.ckpts, [s \in {step} |-> item])]

\* CheckpointManager.save(step, item)
CheckpointManagerSave(mgr, step, item) ==
    LET all == DictUpdate(mgr.ckpts, [s \in {step} |-> item])
        keep == Retained(DOMAIN all, mgr.max_to_keep)
    IN  [mgr EXCEPT !.ckpts = [s \in keep |-> all[s]]]

IdleSave ==
    /\ save_pc = "off"
    /\ save_dir = None
    /\ process_index = 0
    /\ state_checkpointer = None
    /\ params_checkpointer = None
    /\ fs_dirs = {}
    /\ save_hist = <<>>
    /\ opened = None

InitSave ==
    /\ save_pc = "new"
    /\ save_dir \in SaveDirs
    /\ process_index \in 0..MaxProcessIndex
    /\ state_checkpointer = None
    /\ params_checkpointer = None
    /\ fs_dirs = {}
    /\ save_hist = <<>>
    /\ opened = None

\* variant: __post_init__ without the test of the process index
SaveCallbackPostInitAnyProcess ==
    /\ save_pc = "new"
    /\ save_pc' = "ready"
    /\ IF save_dir # None
       THEN /\ fs_dirs' = fs_dirs \cup {save_dir[1]}
            /\ state_checkpointer' =
                   Some(CheckpointManager(PathJoin(save_dir[1], "state"), Some(1)))
            /\ params_checkpointer' = Some(CheckpointManager(save_dir[1], None))
       ELSE UNCHANGED <<fs_dirs, state_checkpointer, params_checkpointer>>
    /\ UNCHANGED <<save_dir, process_index, save_hist, opened>>

\* __post_init__
SaveCallbackPostInit ==
    /\ save_pc = "new"
    /\ save_pc' = "ready"
    /\ IF save_dir # None /\ process_index = 0
       THEN /\ fs_dirs' = fs_dirs \cup {save_dir[1]}
            /\ state_checkpointer' =
                   Some(CheckpointManager(PathJoin(save_dir[1], "state"), Some(1)))
            /\ params_checkpointer' = Some(CheckpointManager(save_dir[1], None))
       ELSE UNCHANGED <<fs_dirs, state_checkpointer, params_checkpointer>>
    /\ UNCHANGED <<save_dir, process_index, save_hist, opened>>

\* __call__(train_state, step); the training loop passes increasing steps
SaveCallbackCall(train_state, step) ==
    /\ save_pc = "ready"
    /\ \A s \in DOMAIN save_hist : s < step
    /\ save_hist' = DictUpdate(save_hist, [s \in {step} |-> train_state])
    /\ IF save_dir # None /\ process_index = 0
       THEN /\ params_checkpointer' =
                   Some(CheckpointManagerSave(params_checkpointer[1], step,
                                              train_state.params))
            /\ state_checkpointer' =
                   Some(CheckpointManagerSave(state_checkpointer[1], step,
                                              train_state))
       ELSE UNCHANGED <<params_checkpointer, state_checkpointer>>
    /\ UNCHANGED <<save_pc, save_dir, process_index, fs_dirs, opened>>

\* open(fname, mode)
SaveCallbackOpen(fname, mode) ==
    /\ save_pc = "ready"
    /\ IF save_dir # None /\ process_index = 0
       THEN opened' = Some([kind |-> "GFile", path |-> PathJoin(save_dir[1], fname),
                            fname |-> fname, mode |-> mode])
       ELSE opened' = Some([kind |-> "file", path |-> DevNull,
                            fname |-> fname, mode |-> mode])
    /\ UNCHANGED <<save_pc, save_dir, process_index, state_checkpointer,
                   params_checkpointer, fs_dirs, save_hist>>

---------------------------------------------------------------------------
(* Task dictionaries: remove_text, remove_images, the ablation by mode *)

MaxBatch == 2

\* the values of an array's rows; 0 is a black image row
Elem == {0, 1}
TaskKeys == {"image_primary", "goal_image", "language_instruction", "timestep"}
Modes == {"base", "text_conditioned", "image_conditioned", "unconditioned"}
\* policy_mode: None, a mode of the protocol, or any other string
PolicyModes == {None} \cup {Some(m) : m \in Modes \cup {"goal_conditioned"}}

\* every task dictionary whose arrays have batch size b
TaskDicts(b) == DictsOver(TaskKeys, [1..b -> Elem])

\* sub in s
Contains(s, sub) ==
    \E i \in 1..(Len(s) - Len(sub) + 1) : SubSeq(s, i, i + Len(sub) - 1) = sub

\* s.startswith(sub)
StartsWith(s, sub) == Len(s) >= Len(sub) /\ SubSeq(s, 1, Len(sub)) = sub

\* jnp.zeros_like(v)
ZerosLike(v) == [i \in 1..Len(v) |-> 0]

\* jnp.broadcast_to(example[None], x.shape)
BroadcastTo(example, x) == [i \in 1..Len(x) |-> example]

\* variant: the encoding stored without broadcasting it over the batch
RemoveTextNoBroadcast(tasks, zero_text_encoding) ==
    IF "language_instruction" \in DOMAIN tasks
    THEN DictUpdate(tasks, [k \in {"language_instruction"} |-> <<zero_text_encoding>>])
    ELSE tasks

\* remove_text(tasks, zero_text_encoding)
RemoveText(tasks, zero_text_encoding) ==
    IF "language_instruction" \in DOMAIN tasks
    THEN LET new_language ==
                 BroadcastTo(zero_text_encoding, tasks["language_instruction"])
         IN  DictUpdate(tasks, [k \in {"language_instruction"} |-> new_language])
    ELSE tasks

\* variant: only the keys that start with "image"
RemoveImagesByPrefix(tasks) ==
    LET new_images == [k \in {j \in DOMAIN tasks : StartsWith(j, "image")} |->
                           ZerosLike(tasks[k])]
    IN  DictUpdate(tasks, new_images)

\* remove_images(tasks)
RemoveImages(tasks) ==
    LET new_images == [k \in {j \in DOMAIN tasks : Contains(j, "image")} |->
                           ZerosLike(tasks[k])]
    IN  DictUpdate(tasks, new_images)

\* the tasks get_policy_sampled_actions hands to the model
GetPolicyTasks(tasks, zero_text, policy_mode) ==
    IF policy_mode = Some("text_conditioned") THEN RemoveImages(tasks)
    ELSE IF policy_mode = Some("image_conditioned") THEN RemoveText(tasks, zero_text)
    ELSE IF policy_mode = Some("unconditioned")
         THEN RemoveText(RemoveImages(tasks), zero_text)
    ELSE tasks

\* the keys of eval_step's all_tasks: each entry is added when the mode its
\* if statement tests is in modes_to_evaluate
EvalStepKeys(modes) ==
    {k \in Modes :
        \/ k = "base" /\ "base" \in modes
        \/ k = "text_conditioned" /\ "image_conditioned" \in modes
        \/ k = "image_conditioned" /\ "text_conditioned" \in modes
        \/ k = "unconditioned" /\ "unconditioned" \in modes}

\* the statements of eval_step that read self.zero_text
EvalStepReadsZeroText(modes) ==
    "text_conditioned" \in modes \/ "unconditioned" \in modes

\* variant: the ablations of text_conditioned and image_conditioned exchanged
EvalStepAllTasksCrossed(modes, tasks, self_zero_text) ==
    IF EvalStepReadsZeroText(modes) /\ self_zero_text = None
    THEN [error |-> Some("AttributeError"), all_tasks |-> <<>>]
    ELSE [error |-> None,
          all_tasks |->
              [k \in EvalStepKeys(modes) |->
                  CASE k = "base" -> tasks
                    [] k = "text_conditioned" -> RemoveText(tasks, self_zero_text[1])
                    [] k = "image_conditioned" -> RemoveImages(tasks)
                    [] k = "unconditioned" ->
                           RemoveText(RemoveImages(tasks), self_zero_text[1])]]

\* eval_step's all_tasks for a batch with these tasks; self_zero_text is the
\* attribute zero_text, None when __post_init__ did not assign it
EvalStepAllTasks(modes, tasks, self_zero_text) ==
    IF EvalStepReadsZeroText(modes) /\ self_zero_text = None
    THEN [error |-> Some("AttributeError"), all_tasks |-> <<>>]
    ELSE [error |-> None,
          all_tasks |->
              [k \in EvalStepKeys(modes) |->
                  CASE k = "base" -> tasks
                    [] k = "text_conditioned" -> RemoveImages(tasks)
                    [] k = "image_conditioned" -> RemoveText(tasks, self_zero_text[1])
                    [] k = "unconditioned" ->
                           RemoveText(RemoveImages(tasks), self_zero_text[1])]]

NoEval == [error |-> None, all_tasks |-> <<>>]

IdleTasks ==
    /\ t_pc = "off"
    /\ t_tasks = <<>>
    /\ t_zero_text = 0
    /\ t_ops = <<>>
    /\ t_policy_mode = None
    /\ t_modes = {}
    /\ t_self_zero_text = None
    /\ t_res = <<>>
    /\ t_eval = NoEval

InitTasks ==
    /\ t_pc = "input"
    /\ \E b \in 1..MaxBatch : t_tasks \in TaskDicts(b)
    /\ t_zero_text \in Elem
    /\ t_ops = <<>>
    /\ t_policy_mode = None
    /\ t_modes = {}
    /\ t_self_zero_text = None
    /\ t_res = <<>>
    /\ t_eval = NoEval

\* the argument of the next call: the caller's tasks, or the result of the
\* call before
TasksArg == IF t_res = <<>> THEN t_tasks ELSE t_res[Len(t_res)]

\* a call of remove_images; its result is a new dictionary
CallRemoveImages ==
    /\ t_pc \in {"input", "removed"}
    /\ Len(t_ops) < 2
    /\ t_pc' = "removed"
    /\ t_ops' = Append(t_ops, "remove_images")
    /\ t_res' = Append(t_res, RemoveImages(TasksArg))
    /\ UNCHANGED <<t_tasks, t_zero_text, t_policy_mode, t_modes,
                   t_self_zero_text, t_eval>>

\* a call of remove_text with the encoding of the empty string
CallRemoveText ==
    /\ t_pc \in {"input", "removed"}
    /\ Len(t_ops) < 2
    /\ t_pc' = "removed"
    /\ t_ops' = Append(t_ops, "remove_text")
    /\ t_res' = Append(t_res, RemoveText(TasksArg, t_zero_text))
    /\ UNCHANGED <<t_tasks, t_zero_text, t_policy_mode, t_modes,
                   t_self_zero_text, t_eval>>

\* a call of get_policy_sampled_actions(state, observations, tasks,
\* zero_text=..., policy_mode=...)
CallGetPolicySampledActions(policy_mode) ==
    /\ t_pc = "input"
    /\ t_pc' = "sampled"
    /\ t_ops' = <<"get_policy_sampled_actions">>
    /\ t_policy_mode' = policy_mode
    /\ t_res' = <<GetPolicyTasks(t_tasks, t_zero_text, policy_mode)>>
    /\ UNCHANGED <<t_tasks, t_zero_text, t_modes, t_self_zero_text, t_eval>>

\* a call of eval_step on a batch with these tasks, by a ValidationCallback
\* with these modes_to_evaluate, with or without a text processor
CallEvalStep(modes, has_text_processor) ==
    /\ t_pc = "input"
    /\ t_pc' = "evaluated"
    /\ t_ops' = <<"eval_step">>
    /\ t_modes' = modes
    /\ t_self_zero_text' = IF has_text_processor THEN Some(t_zero_text) ELSE None
    /\ t_eval' = EvalStepAllTasks(modes, t_tasks, t_self_zero_text')
    /\ UNCHANGED <<t_tasks, t_zero_text, t_policy_mode, t_res>>

---------------------------------------------------------------------------
(* ValidationCallback *)

MaxNumValBatches == 2
MaxCalls == 2

DefaultModes == {"text_conditioned", "image_conditioned"}

\* val_dataset_kwargs_list: no dataset, one, two, or two under one name
ValDatasetLists ==
    { <<>>,
      <<[name |-> "bridge", data |-> 1]>>,
      <<[name |-> "bridge", data |-> 1], [name |-> "fractal", data |-> 2]>>,
      <<[name |-> "bridge", data |-> 1], [name |-> "bridge", data |-> 2]>> }

\* text_processor.encode("") with the batch dimension dropped
EmptyStringEncoding == 9

\* the i-th batch of the iterator over a dataset (unbatch, shuffle, repeat,
\* batch): the stream never ends
ValBatch(data, i) ==
    [tasks |-> [image_primary |-> <<data + i>>,
                language_instruction |-> <<data * i + 1>>,
                timestep |-> <<i>>]]

RECURSIVE SeqSum(_)
SeqSum(xs) == IF xs = <<>> THEN 0 ELSE xs[1] + SeqSum(Tail(xs))

\* loss_fn(batch=...)[1]: the metrics of a batch, a function of its contents
LossMetrics(batch) ==
    LET t == batch.tasks
    IN  SeqSum(t["image_primary"]) + 100 * SeqSum(t["language_instruction"])
            + 10000 * SeqSum(t["timestep"])

\* eval_step(state, batch): the metrics of the batch under every entry of
\* all_tasks
EvalStep(modes, batch, self_zero_text) ==
    LET at == EvalStepAllTasks(modes, batch.tasks, self_zero_text)
    IN  [invoked |-> TRUE,
         error |-> at.error,
         metrics |-> [k \in DOMAIN at.all_tasks |->
                         LossMetrics([batch EXCEPT !.tasks = at.all_tasks[k]])]]

NotEvaluated == [invoked |-> FALSE, error |-> None, metrics |-> <<>>]

\* np.mean(xs), as the exact fraction sum / count
Mean(xs) == [sum |-> SeqSum(xs), count |-> Len(xs)]

\* jax.tree_map(lambda *xs: np.mean(xs), *metrics): with no tree to map over,
\* the call itself is a TypeError
TreeMapMean(metrics) ==
    IF metrics = <<>>
    THEN [error |-> Some("TypeError"), value |-> <<>>]
    ELSE [error |-> None,
          value |-> [k \in DOMAIN metrics[1] |->
                        Mean([j \in 1..Len(metrics) |-> metrics[j][k]])]]

\* the loop over zip(range(num_val_batches), val_data_iter) from iteration i
\* on: zip asks the range first and draws no batch once it is exhausted
RECURSIVE ValLoop(_, _, _, _, _, _, _)
ValLoop(n, modes, zt, data, i, pos, metrics) ==
    IF i >= n
    THEN [pos |-> pos, metrics |-> metrics, error |-> None,
          last_eval |-> IF metrics = <<>> THEN NotEvaluated
                        ELSE EvalStep(modes, ValBatch(data, pos), zt)]
    ELSE LET ev == EvalStep(modes, ValBatch(data, pos + 1), zt) IN
         IF ev.error # None
         THEN [pos |-> pos + 1, metrics |-> metrics, error |-> ev.error,
               last_eval |-> ev]
         ELSE ValLoop(n, modes, zt, data, i + 1, pos + 1,
                      Append(metrics, ev.metrics))

\* the keys of the dict filled with single_dataset_kwargs["name"] for every
\* entry of val_dataset_kwargs_list, in insertion order
DatasetNames(kwargs_list) ==
    DictOrder([j \in DOMAIN kwargs_list |-> kwargs_list[j].name])

\* the loop of __call__ over val_iterators.items(), from the j-th name on; an
\* exception ends the call with the iterators as far as they were advanced
RECURSIVE ValCallFrom(_, _, _, _, _, _, _, _)
ValCallFrom(names, j, n, modes, zt, iterators, wandb_metrics, last_eval) ==
    IF j > Len(names)
    THEN [iterators |-> iterators, error |-> None,
          wandb_metrics |-> wandb_metrics, last_eval |-> last_eval]
    ELSE LET name == names[j]
             it == iterators[name]
             loop == ValLoop(n, modes, zt, it.data, 0, it.pos, <<>>)
             advanced == [iterators EXCEPT ![name].pos = loop.pos]
             evaluated == IF loop.last_eval.invoked THEN loop.last_eval
                          ELSE last_eval
             mean == TreeMapMean(loop.metrics)
         IN  IF loop.error # None
             THEN [iterators |-> advanced, error |-> loop.error,
                   wandb_metrics |-> <<>>, last_eval |-> evaluated]
             ELSE IF mean.error # None
             THEN [iterators |-> advanced, error |-> mean.error,
                   wandb_metrics |-> <<>>, last_eval |-> evaluated]
             ELSE ValCallFrom(names, j + 1, n, modes, zt, advanced,
                      DictUpdate(wandb_metrics,
                                 [k \in {"validation_" \o name} |-> mean.value]),
                      evaluated)

NoReturn == [error |-> None, wandb_metrics |-> <<>>]

IdleVal ==
    /\ val_pc = "off"
    /\ val_text_processor = None
    /\ val_zero_text = None
    /\ val_dataset_kwargs_list = <<>>
    /\ val_iterators = <<>>
    /\ num_val_batches = 0
    /\ modes_to_evaluate = {}
    /\ val_calls = 0
    /\ val_last_eval = NotEvaluated
    /\ val_ret = NoReturn

InitVal ==
    /\ val_pc = "new"
    /\ val_text_processor \in {None, Some("text_processor")}
    /\ val_zero_text = None
    /\ val_dataset_kwargs_list \in ValDatasetLists
    /\ val_iterators = <<>>
    /\ num_val_batches \in 0..MaxNumValBatches
    /\ modes_to_evaluate \in SUBSET Modes
    /\ val_calls = 0
    /\ val_last_eval = NotEvaluated
    /\ val_ret = NoReturn

ValidationCallbackPostInit ==
    /\ val_pc = "new"
    /\ val_pc' = "ready"
    /\ val_zero_text' = IF val_text_processor # None
                        THEN Some(EmptyStringEncoding) ELSE None
    /\ val_iterators' =
           [name \in {val_dataset_kwargs_list[j].name :
                         j \in DOMAIN val_dataset_kwargs_list} |->
               LET last == SetMax({j \in DOMAIN val_dataset_kwargs_list :
                                     val_dataset_kwargs_list[j].name = name})
               IN  [data |-> val_dataset_kwargs_list[last].data, pos |-> 0]]
    /\ UNCHANGED <<val_text_processor, val_dataset_kwargs_list, num_val_batches,
                   modes_to_evaluate, val_calls, val_last_eval, val_ret>>

\* __call__(train_state, step)
ValidationCallbackCall ==
    /\ val_pc = "ready"
    /\ val_calls < MaxCalls
    /\ LET r == ValCallFrom(DatasetNames(val_dataset_kwargs_list), 1,
                            num_val_batches, modes_to_evaluate, val_zero_text,
                            val_iterators, <<>>, val_last_eval)
       IN  /\ val_iterators' = r.iterators
           /\ val_last_eval' = r.last_eval
           /\ val_ret' = [error |-> r.error, wandb_metrics |-> r.wandb_metrics]
    /\ val_calls' = val_calls + 1
    /\ UNCHANGED <<val_pc, val_text_processor, val_zero_text,
                   val_dataset_kwargs_list, num_val_batches, modes_to_evaluate>>

---------------------------------------------------------------------------
(* VisualizationCallback *)

MaxTrajs == 2

\* modes_to_evaluate: a sequence of mode names, the default first
VizModeLists ==
    { <<"text_conditioned", "image_conditioned">>,
      <<>>,
      <<"base">>,
      <<"unconditioned", "base", "text_conditioned">>,
      <<"image_conditioned", "image_conditioned">> }

\* one visualizer method invoked with a mode's policy function and max_trajs,
\* and the wandb_metrics entry that stores what it returned
VizStep(method, prefix, name, mode, max_trajs) ==
    [invoked |-> [visualizer |-> name, method |-> method, policy_mode |-> mode,
                  max_trajs |-> max_trajs],
     key |-> prefix \o name \o "/" \o mode]

\* variant: visualize_for_wandb invoked whatever trajs_for_viz is
VizBodyUnguardedViz(name, mode, for_metrics, for_viz) ==
    (IF for_metrics > 0
     THEN <<VizStep("raw_evaluations", "offline_metrics_", name, mode, for_metrics)>>
     ELSE <<>>)
    \o <<VizStep("visualize_for_wandb", "visualizations_", name, mode, for_viz)>>

\* the body of the loops of __call__ for one visualizer and one mode
VizBody(name, mode, for_metrics, for_viz) ==
    (IF for_metrics > 0
     THEN <<VizStep("raw_evaluations", "offline_metrics_", name, mode, for_metrics)>>
     ELSE <<>>)
    \o
    (IF for_viz > 0
     THEN <<VizStep("visualize_for_wandb", "visualizations_", name, mode, for_viz)>>
     ELSE <<>>)

\* for mode, policy_fn in modal_policy_fns.items(), from the j-th mode on
RECURSIVE VizModeLoop(_, _, _, _, _)
VizModeLoop(name, modes, j, for_metrics, for_viz) ==
    IF j > Len(modes) THEN <<>>
    ELSE VizBody(name, modes[j], for_metrics, for_viz)
             \o VizModeLoop(name, modes, j + 1, for_metrics, for_viz)

\* for name, visualizer in self.visualizers.items(), from the i-th name on
RECURSIVE VizNameLoop(_, _, _, _, _)
VizNameLoop(names, i, modes, for_metrics, for_viz) ==
    IF i > Len(names) THEN <<>>
    ELSE VizModeLoop(names[i], modes, 1, for_metrics, for_viz)
             \o VizNameLoop(names, i + 1, modes, for_metrics, for_viz)

\* wandb_metrics after the assignments of these steps, in order
RECURSIVE WandbMetrics(_)
WandbMetrics(steps) ==
    IF steps = <<>> THEN <<>>
    ELSE LET last == steps[Len(steps)]
         IN  DictUpdate(WandbMetrics(SubSeq(steps, 1, Len(steps) - 1)),
                        [k \in {last.key} |-> last.invoked])

IdleViz ==
    /\ viz_pc = "off"
    /\ viz_dataset_kwargs_list = <<>>
    /\ viz_modes_to_evaluate = <<>>
    /\ trajs_for_metrics = 0
    /\ trajs_for_viz = 0
    /\ visualizers = <<>>
    /\ viz_calls = 0
    /\ viz_invoked = <<>>
    /\ viz_ret = <<>>

InitViz ==
    /\ viz_pc = "new"
    /\ viz_dataset_kwargs_list \in ValDatasetLists
    /\ viz_modes_to_evaluate \in VizModeLists
    /\ trajs_for_metrics \in 0..MaxTrajs
    /\ trajs_for_viz \in 0..MaxTrajs
    /\ visualizers = <<>>
    /\ viz_calls = 0
    /\ viz_invoked = <<>>
    /\ viz_ret = <<>>

VisualizationCallbackPostInit ==
    /\ viz_pc = "new"
    /\ viz_pc' = "ready"
    /\ visualizers' =
           [name \in {viz_dataset_kwargs_list[j].name :
                         j \in DOMAIN viz_dataset_kwargs_list} |->
               LET last == SetMax({j \in DOMAIN viz_dataset_kwargs_list :
                                     viz_dataset_kwargs_list[j].name = name})
               IN  [data |-> viz_dataset_kwargs_list[last].data]]
    /\ UNCHANGED <<viz_dataset_kwargs_list, viz_modes_to_evaluate,
                   trajs_for_metrics, trajs_for_viz, viz_calls, viz_invoked,
                   viz_ret>>

\* __call__(train_state, step)
VisualizationCallbackCall ==
    /\ viz_pc = "ready"
    /\ viz_calls < MaxCalls
    /\ LET steps == VizNameLoop(DatasetNames(viz_dataset_kwargs_list), 1,
                                DictOrder(viz_modes_to_evaluate),
                                trajs_for_metrics, trajs_for_viz)
       IN  /\ viz_invoked' = [j \in DOMAIN steps |-> steps[j].invoked]
           /\ viz_ret' = WandbMetrics(steps)
    /\ viz_calls' = viz_calls + 1
    /\ UNCHANGED <<viz_pc, viz_dataset_kwargs_list, viz_modes_to_evaluate,
                   trajs_for_metrics, trajs_for_viz, visualizers>>

---------------------------------------------------------------------------
(* Specifications *)

NextCvd == create_validation_dataset /\ UNCHANGED <<varsSave, varsTasks, varsVal, varsViz>>

InitSpecCvd == InitCvd /\ IdleSave /\ IdleTasks /\ IdleVal /\ IdleViz

SpecCvd == InitSpecCvd /\ [][NextCvd]_vars

NextSave ==
    \/ SaveCallbackPostInit /\ UNCHANGED <<varsCvd, varsTasks, varsVal, varsViz>>
    \/ \E ts \in TrainStates, step \in 1..MaxStep :
           SaveCallbackCall(ts, step) /\ UNCHANGED <<varsCvd, varsTasks, varsVal, varsViz>>
    \/ \E fname \in FileNames, mode \in FileModes :
           SaveCallbackOpen(fname, mode) /\ UNCHANGED <<varsCvd, varsTasks, varsVal, varsViz>>

InitSpecSave == IdleCvd /\ InitSave /\ IdleTasks /\ IdleVal /\ IdleViz

SpecSave == InitSpecSave /\ [][NextSave]_vars

NextTasks ==
    \/ CallRemoveImages /\ UNCHANGED <<varsCvd, varsSave, varsVal, varsViz>>
    \/ CallRemoveText /\ UNCHANGED <<varsCvd, varsSave, varsVal, varsViz>>
    \/ \E policy_mode \in PolicyModes :
           CallGetPolicySampledActions(policy_mode) /\ UNCHANGED <<varsCvd, varsSave, varsVal, varsViz>>
    \/ \E modes \in SUBSET Modes, has_text_processor \in BOOLEAN :
           CallEvalStep(modes, has_text_processor) /\ UNCHANGED <<varsCvd, varsSave, varsVal, varsViz>>

InitSpecTasks == IdleCvd /\ IdleSave /\ InitTasks /\ IdleVal /\ IdleViz

SpecTasks == InitSpecTasks /\ [][NextTasks]_vars

NextVal ==
    \/ ValidationCallbackPostInit /\ UNCHANGED <<varsCvd, varsSave, varsTasks, varsViz>>
    \/ ValidationCallbackCall /\ UNCHANGED <<varsCvd, varsSave, varsTasks, varsViz>>

InitSpecVal == IdleCvd /\ IdleSave /\ IdleTasks /\ InitVal /\ IdleViz

SpecVal == InitSpecVal /\ [][NextVal]_vars

NextViz ==
    \/ VisualizationCallbackPostInit
           /\ UNCHANGED <<varsCvd, varsSave, varsTasks, varsVal>>
    \/ VisualizationCallbackCall
           /\ UNCHANGED <<varsCvd, varsSave, varsTasks, varsVal>>

InitSpecViz == IdleCvd /\ IdleSave /\ IdleTasks /\ IdleVal /\ InitViz

SpecViz == InitSpecViz /\ [][NextViz]_vars

\* the whole module: a run exercises one of its components
Init ==
    \/ InitSpecCvd
    \/ InitSpecSave
    \/ InitSpecTasks
    \/ InitSpecVal
    \/ InitSpecViz

Next ==
    \/ NextCvd
    \/ NextSave
    \/ NextTasks
    \/ NextVal
    \/ NextViz

Spec == Init /\ [][Next]_vars

---------------------------------------------------------------------------
(* Properties of create_validation_dataset *)

DatasetOverrides == {"num_parallel_reads", "num_parallel_calls", "shuffle"}
TrajOverrides == {"num_parallel_calls"}

\* what C5 says of the dataset that was made
C5_MadeConservative ==
    cvd_pc = "made" =>
        LET m == cvd_made[1] IN
        /\ DOMAIN m.dataset_kwargs = DOMAIN cvd_dataset_kwargs \cup DatasetOverrides
        /\ m.dataset_kwargs["shuffle"] = "False"
        /\ m.dataset_kwargs["num_parallel_reads"] = "4"
        /\ m.dataset_kwargs["num_parallel_calls"] = "4"
        /\ \A k \in DOMAIN cvd_dataset_kwargs \ DatasetOverrides :
               m.dataset_kwargs[k] = cvd_dataset_kwargs[k]
        /\ DOMAIN m.traj_transform_kwargs =
               DOMAIN cvd_traj_transform_kwargs \cup TrajOverrides
        /\ m.traj_transform_kwargs["num_parallel_calls"] = "4"
        /\ \A k \in DOMAIN cvd_traj_transform_kwargs \ TrajOverrides :
               m.traj_transform_kwargs[k] = cvd_traj_transform_kwargs[k]
        /\ m.frame_transform_kwargs = cvd_frame_transform_kwargs
        /\ m.train = cvd_train

\* C5: create_validation_dataset builds the dataset with dataset_kwargs
\* shuffle = False, num_parallel_reads = 4, num_parallel_calls = 4 and
\* traj_transform_kwargs num_parallel_calls = 4 whatever the caller's
\* dictionaries carry for these keys; every other key of both dictionaries
\* and all of frame_transform_kwargs reach make_single_dataset unchanged;
\* and no step changes the caller's dictionaries.
C5_ConservativeOverrides ==
    /\ []C5_MadeConservative
    /\ [][/\ cvd_dataset_kwargs' = cvd_dataset_kwargs
          /\ cvd_traj_transform_kwargs' = cvd_traj_transform_kwargs
          /\ cvd_frame_transform_kwargs' = cvd_frame_transform_kwargs]_vars

\* a dataset was made from a configuration that sets every overridden key
\* to another value and carries other keys too
C5_Witness ==
    /\ cvd_pc = "made"
    /\ DOMAIN cvd_dataset_kwargs = DatasetKwargKeys
    /\ cvd_dataset_kwargs["shuffle"] = "True"
    /\ cvd_dataset_kwargs["num_parallel_reads"] = "8"
    /\ cvd_dataset_kwargs["num_parallel_calls"] = "8"
    /\ DOMAIN cvd_traj_transform_kwargs = TrajKwargKeys
    /\ DOMAIN cvd_frame_transform_kwargs = FrameKwargKeys

---------------------------------------------------------------------------
(* Properties of SaveCallback *)

\* C1: with save_dir set on process 0, after any sequence of calls with
\* increasing steps the params checkpointer holds, for every step that was
\* saved, the params passed at that step, and the state checkpointer holds
\* exactly one checkpoint, the full train state of the most recent step.
C1_ParamsAllStateLatest ==
    (save_pc = "ready" /\ save_dir # None /\ process_index = 0) =>
        /\ params_checkpointer # None /\ state_checkpointer # None
        /\ DOMAIN params_checkpointer[1].ckpts = DOMAIN save_hist
        /\ \A s \in DOMAIN save_hist :
               params_checkpointer[1].ckpts[s] = save_hist[s].params
        /\ save_hist # <<>> =>
               /\ DOMAIN state_checkpointer[1].ckpts = {SetMax(DOMAIN save_hist)}
               /\ \A s \in DOMAIN state_checkpointer[1].ckpts :
                      state_checkpointer[1].ckpts[s] = save_hist[s]
        /\ save_hist = <<>> => state_checkpointer[1].ckpts = <<>>

\* three saves, not at consecutive steps, with different train states
C1_Witness ==
    /\ save_pc = "ready" /\ save_dir # None /\ process_index = 0
    /\ DOMAIN save_hist = {1, 3, 4}
    /\ save_hist[1] # save_hist[4]

\* C2: a SaveCallback whose save_dir is None, or that runs on a process other
\* than 0, creates no directory and no checkpointer and saves nothing, and
\* its open returns a handle on the null device; with save_dir set on
\* process 0, open returns a handle on save_dir/fname.
C2_InactiveDoesNothing ==
    /\ (save_dir = None \/ process_index # 0) =>
           /\ fs_dirs = {}
           /\ state_checkpointer = None
           /\ params_checkpointer = None
           /\ opened # None =>
                  opened[1].path = "/dev/null" /\ opened[1].kind = "file"
    /\ (save_dir # None /\ process_index = 0 /\ opened # None) =>
           /\ opened[1].kind = "GFile"
           /\ opened[1].path = save_dir[1] \o "/" \o opened[1].fname
    /\ (save_pc = "ready" /\ opened # None) => opened[1].mode \in FileModes

\* a callback with a save_dir on process 1 was called and opened a file
C2_Witness ==
    /\ save_pc = "ready" /\ save_dir # None /\ process_index # 0
    /\ Cardinality(DOMAIN save_hist) >= 2
    /\ opened # None

---------------------------------------------------------------------------
(* Properties of remove_images, remove_text and the ablation by mode *)

\* the keys of TaskKeys that contain "image"
ImageKeys == {"image_primary", "goal_image"}

\* the argument and the result of the i-th call of a chain
ArgOf(i) == IF i = 1 THEN t_tasks ELSE t_res[i - 1]

AllZero(v) == \A i \in DOMAIN v : v[i] = 0

ImagesZeroed(r, t) ==
    \A k \in ImageKeys \cap DOMAIN t : Len(r[k]) = Len(t[k]) /\ AllZero(r[k])

ImagesIntact(r, t) == \A k \in ImageKeys \cap DOMAIN t : r[k] = t[k]

LanguageIntact(r, t) ==
    "language_instruction" \in DOMAIN t =>
        r["language_instruction"] = t["language_instruction"]

LanguageEmptied(r, t, z) ==
    "language_instruction" \in DOMAIN t =>
        /\ Len(r["language_instruction"]) = Len(t["language_instruction"])
        /\ \A i \in DOMAIN r["language_instruction"] :
               r["language_instruction"][i] = z

OthersIntact(r, t) ==
    /\ DOMAIN r = DOMAIN t
    /\ \A k \in DOMAIN t \ (ImageKeys \cup {"language_instruction"}) : r[k] = t[k]

\* what C3 says of each call of remove_images
C3_RemoveImagesResult ==
    \A i \in DOMAIN t_ops :
        t_ops[i] = "remove_images" =>
            /\ OthersIntact(t_res[i], ArgOf(i))
            /\ ImagesZeroed(t_res[i], ArgOf(i))
            /\ LanguageIntact(t_res[i], ArgOf(i))
            /\ (i > 1 /\ t_ops[i - 1] = "remove_images") => t_res[i] = t_res[i - 1]

\* C3: remove_images returns a dictionary with the key set of its argument in
\* which every entry whose key contains "image" is all zeros of the same
\* shape and every other entry equals the argument's; a second application
\* returns what the first returned; and no call changes the caller's
\* dictionary.
C3_RemoveImages ==
    /\ []C3_RemoveImagesResult
    /\ [][t_tasks' = t_tasks]_vars

\* remove_images was applied twice to tasks that hold both image keys, with
\* non-zero rows, and a language instruction
C3_Witness ==
    /\ t_ops = <<"remove_images", "remove_images">>
    /\ DOMAIN t_tasks = TaskKeys
    /\ \A k \in TaskKeys : t_tasks[k] = <<1, 0>>

\* C4: remove_text replaces the language_instruction entry by the encoding of
\* the empty string repeated for every element of the batch and leaves every
\* other entry as it was; without a language_instruction key the result is the
\* argument; remove_text after remove_images gives what remove_images after
\* remove_text gives.
C4_RemoveText ==
    /\ \A i \in DOMAIN t_ops :
           t_ops[i] = "remove_text" =>
               /\ OthersIntact(t_res[i], ArgOf(i))
               /\ ImagesIntact(t_res[i], ArgOf(i))
               /\ LanguageEmptied(t_res[i], ArgOf(i), t_zero_text)
               /\ "language_instruction" \notin DOMAIN ArgOf(i) =>
                      t_res[i] = ArgOf(i)
    /\ t_ops = <<"remove_images", "remove_text">> =>
           t_res[2] = RemoveImages(RemoveText(t_tasks, t_zero_text))
    /\ t_ops = <<"remove_text", "remove_images">> =>
           t_res[2] = RemoveText(RemoveImages(t_tasks), t_zero_text)

\* remove_text was applied after remove_images to tasks with every key, with
\* an encoding of the empty string that is not zero
C4_Witness ==
    /\ t_ops = <<"remove_images", "remove_text">>
    /\ DOMAIN t_tasks = TaskKeys
    /\ \A k \in TaskKeys : t_tasks[k] = <<0, 1>>
    /\ t_zero_text = 1

\* what a mode's name says of the tasks r made from the tasks t
Ablation(name, r, t, z) ==
    /\ OthersIntact(r, t)
    /\ CASE name = "text_conditioned" -> ImagesZeroed(r, t) /\ LanguageIntact(r, t)
         [] name = "image_conditioned" -> LanguageEmptied(r, t, z) /\ ImagesIntact(r, t)
         [] name = "unconditioned" -> ImagesZeroed(r, t) /\ LanguageEmptied(r, t, z)
         [] OTHER -> r = t

\* C7: the tasks get_policy_sampled_actions uses for a policy_mode, and the
\* tasks of every entry of eval_step's all_tasks, are the ablation the name
\* says: text_conditioned has images zeroed and language intact,
\* image_conditioned has language emptied and images intact, unconditioned
\* has both removed, and base, None or any other mode has the tasks as given.
C7_ModeNameDeterminesAblation ==
    /\ t_pc = "sampled" =>
           Ablation(IF t_policy_mode = None THEN "None" ELSE t_policy_mode[1],
                    t_res[1], t_tasks, t_zero_text)
    /\ t_pc = "evaluated" =>
           \A k \in DOMAIN t_eval.all_tasks :
               Ablation(k, t_eval.all_tasks[k], t_tasks, t_zero_text)

\* eval_step produced the entries text_conditioned and image_conditioned for
\* tasks with every key
C7_Witness ==
    /\ t_pc = "evaluated"
    /\ {"text_conditioned", "image_conditioned"} \subseteq DOMAIN t_eval.all_tasks
    /\ DOMAIN t_tasks = TaskKeys
    /\ \A k \in TaskKeys : t_tasks[k] = <<1, 0>>
    /\ t_zero_text = 1

---------------------------------------------------------------------------
(* Properties of ValidationCallback *)

ValNamesDistinct ==
    \A i, j \in DOMAIN val_dataset_kwargs_list :
        val_dataset_kwargs_list[i].name = val_dataset_kwargs_list[j].name => i = j

\* C6: eval_step reports a mode if and only if it was requested: the keys of
\* the metrics it returns are modes_to_evaluate.
C6_EvalStepKeysAreModes ==
    (val_last_eval.invoked /\ val_last_eval.error = None) =>
        DOMAIN val_last_eval.metrics = modes_to_evaluate

\* the metrics of the batches a dataset's iterator yields at positions
\* from + 1 .. from + n
BatchMetrics(data, from, n) ==
    [j \in 1..n |->
        EvalStep(modes_to_evaluate, ValBatch(data, from + j), val_zero_text).metrics]

\* C8: for every num_val_batches >= 0, after k calls each validation iterator
\* has yielded exactly k * num_val_batches batches, and the last call returned
\* one entry validation_<name> per dataset holding the mean of each metric
\* over the num_val_batches batches that call drew.
C8_ExactlyNumValBatches ==
    (val_pc = "ready" /\ ValNamesDistinct) =>
        /\ \A name \in DOMAIN val_iterators :
               val_iterators[name].pos = val_calls * num_val_batches
        /\ val_calls > 0 =>
               /\ val_ret.error = None
               /\ DOMAIN val_ret.wandb_metrics =
                      {"validation_" \o name : name \in DOMAIN val_iterators}
               /\ \A name \in DOMAIN val_iterators :
                      val_ret.wandb_metrics["validation_" \o name] =
                          TreeMapMean(BatchMetrics(val_iterators[name].data,
                                          (val_calls - 1) * num_val_batches,
                                          num_val_batches)).value

\* C9: a ValidationCallback with text_processor = None and the default
\* modes_to_evaluate is called without error, and whenever eval_step runs with
\* modes for which it reads zero_text, zero_text is defined.
C9_ZeroTextDefinedWhenRead ==
    /\ (val_text_processor = None /\ modes_to_evaluate = DefaultModes
            /\ val_calls > 0 /\ num_val_batches > 0) =>
           val_ret.error = None
    /\ (val_last_eval.invoked /\ EvalStepReadsZeroText(modes_to_evaluate)) =>
           val_zero_text # None

---------------------------------------------------------------------------
(* Properties of VisualizationCallback *)

VizNames == {viz_dataset_kwargs_list[j].name : j \in DOMAIN viz_dataset_kwargs_list}
VizModes == {viz_modes_to_evaluate[j] : j \in DOMAIN viz_modes_to_evaluate}
VizInvocations == {viz_invoked[j] : j \in DOMAIN viz_invoked}

\* C10: __call__ returns an entry offline_metrics_<name>/<mode> for every
\* dataset name and mode if and only if trajs_for_metrics > 0, an entry
\* visualizations_<name>/<mode> if and only if trajs_for_viz > 0, and nothing
\* else; the visualizer is invoked with max_trajs equal to the count of the
\* kind, and not at all for a kind whose count is 0.
C10_EntriesIffCountPositive ==
    viz_calls > 0 =>
        /\ DOMAIN viz_ret =
               {"offline_metrics_" \o n \o "/" \o m :
                    <<n, m>> \in (IF trajs_for_metrics > 0 THEN VizNames \X VizModes
                                  ELSE {})}
               \cup
               {"visualizations_" \o n \o "/" \o m :
                    <<n, m>> \in (IF trajs_for_viz > 0 THEN VizNames \X VizModes
                                  ELSE {})}
        /\ \A c \in VizInvocations :
               /\ c.method = "raw_evaluations" =>
                      trajs_for_metrics > 0 /\ c.max_trajs = trajs_for_metrics
               /\ c.method = "visualize_for_wandb" =>
                      trajs_for_viz > 0 /\ c.max_trajs = trajs_for_viz
        /\ \A n \in VizNames, m \in VizModes :
               /\ trajs_for_metrics > 0 =>
                      \E c \in VizInvocations :
                          /\ c.method = "raw_evaluations"
                          /\ c.visualizer = n /\ c.policy_mode = m
               /\ trajs_for_viz > 0 =>
                      \E c \in VizInvocations :
                          /\ c.method = "visualize_for_wandb"
                          /\ c.visualizer = n /\ c.policy_mode = m
        /\ (trajs_for_metrics = 0 /\ trajs_for_viz = 0) =>
               (viz_ret = <<>> /\ viz_invoked = <<>>)

\* a call with two datasets and the default modes, metrics on and
\* visualizations off
C10_Witness ==
    /\ viz_calls > 0
    /\ Cardinality(VizNames) = 2
    /\ viz_modes_to_evaluate = <<"text_conditioned", "image_conditioned">>
    /\ trajs_for_metrics = 2
    /\ trajs_for_viz = 0
    /\ Cardinality(DOMAIN viz_ret) = 4

====
